---- MODULE Spec2Model ----
(***************************************************************************)
(* Model of the incremental acquisition / cache-reconciliation pipeline of *)
(* basin-wxm-fetch: prepare_data and the fetch helpers it calls, in the    *)
(* current package (basin_wxm/) and in the earlier revision (src/).        *)
(***************************************************************************)
EXTENDS Integers, Sequences, FiniteSets, TLC

(* ---------------------------------------------------------------------- *)
(* Bounds                                                                 *)
(* ---------------------------------------------------------------------- *)
MaxList == 2

\* largest max_retries handed to create_lazyframe
MaxRetries == 3

\* longest cache file a run may leave behind
MaxCache == MaxList + 1

\* timestamps of the rows and of the bounds are drawn from 0..MaxTs
MaxTs == 2

(* ---------------------------------------------------------------------- *)
(* Event descriptors: decoded JSON objects.  cid "" stands for an empty   *)
(* or missing "cid" key (both are falsy for event.get("cid")); extra = 1  *)
(* stands for an added pass-through field.                                *)
(* ---------------------------------------------------------------------- *)
Event(c, x) == [cid |-> c, extra |-> x]

Events == {Event("c1", 0), Event("c1", 1), Event("c2", 0), Event("", 0)}

SeqsUpTo(S, n) == UNION {[1..k -> S] : k \in 0..n}

Listings == SeqsUpTo(Events, MaxList)

Variants == {"basin_wxm", "src"}

IsPrefix(s, t) == Len(s) <= Len(t) /\ \A i \in 1..Len(s) : s[i] = t[i]

(* ---------------------------------------------------------------------- *)
(* JSON text of the cache file: the array's objects in order, and whether *)
(* the closing bracket was written (text that is not closed, the empty    *)
(* file included, does not decode).                                       *)
(* ---------------------------------------------------------------------- *)
dump(evs) == [items |-> [i \in 1..Len(evs) |-> <<evs[i].cid, evs[i].extra>>],
              closed |-> TRUE]

Decodes(text) == text.closed

loads(text) == [i \in 1..Len(text.items) |-> Event(text.items[i][1], text.items[i][2])]

NoFile == [exists |-> FALSE, text |-> [items |-> <<>>, closed |-> FALSE]]

FileWith(text) == [exists |-> TRUE, text |-> text]

Truncated == [items |-> <<>>, closed |-> FALSE]

PartialTexts(text) == {[items |-> SubSeq(text.items, 1, k), closed |-> FALSE] :
                          k \in 0..Len(text.items)}

(* ---------------------------------------------------------------------- *)
(* Python dict equality and list membership                               *)
(* ---------------------------------------------------------------------- *)
\* mutation: equality on the cid key alone
DictEqCidOnly(a, b) == a.cid = b.cid

DictEq(a, b) == a.cid = b.cid /\ a.extra = b.extra

InList(item, list) == \E i \in 1..Len(list) : DictEq(list[i], item)

(* err(message, e, e_type) raises e_type(message): an exception of class   *)
(* e_type when the class can be built from the message alone, TypeError   *)
(* when its constructor needs more arguments.                             *)
OneArgClasses == {"ValueError", "RuntimeError", "TypeError", "OSError",
                  "ComputeError", "RequestException", "ShError"}

Raised(e_type) == IF e_type \in OneArgClasses THEN e_type ELSE "TypeError"

(* read_events_cache / read_deals_cache: [] when the file is absent, the   *)
(* decoded list when it decodes, an error of the decode error's type      *)
(* otherwise.                                                             *)
ReadFails(file) == file.exists /\ ~Decodes(file.text)

read_events_cache(file) == IF file.exists THEN loads(file.text) ELSE <<>>

(* check_events_cache / check_deals_cache on a non-empty candidate list   *)
Diff(evs, cached) == SelectSeq(evs, LAMBDA item : ~InList(item, cached))

\* mutation: the cache is not consulted
check_events_cache_all(evs, file) == evs

check_events_cache(evs, file) ==
    IF file.exists THEN Diff(evs, read_events_cache(file)) ELSE evs

(* write_events_cache / write_deals_cache: the list to be dumped          *)
\* mutation: the existing list is not loaded
ExtendedOverwrite(evs, file) == evs

Extended(evs, file) == IF file.exists THEN loads(file.text) \o evs ELSE evs

(* the guard "if not events" of check_events_cache and write_events_cache *)
\* mutation: an empty list is let through
NoInputAccepted(evs) == FALSE

NoInput(evs) == Len(evs) = 0

(* the class check_events_cache raises, "none" when it returns: ValueError *)
(* on an empty list, the re-raised read error on an undecodable file      *)
CheckRaises(evs, file) ==
    IF NoInput(evs) THEN Raised("ValueError")
    ELSE IF ReadFails(file) THEN Raised(Raised("JSONDecodeError"))
    ELSE "none"

\* mutation: the existing file is not read before it is opened for writing
WriteRaisesNoRead(evs, file) == IF NoInput(evs) THEN "ValueError" ELSE "none"

(* the class write_events_cache raises before it opens the file for       *)
(* writing, "none" when it gets there                                     *)
WriteRaises(evs, file) ==
    IF NoInput(evs) THEN "ValueError"
    ELSE IF ReadFails(file) THEN "RuntimeError"
    ELSE "none"

(* the argument prepare_data hands to the cache write                     *)
\* mutation: the whole listing is written, not only the new events
WriteArgAll(v, evs, new) == evs

WriteArg(v, evs, new) == IF v = "basin_wxm" THEN new ELSE evs

VARIABLES
    variant,        \* which revision of prepare_data runs
    remote,         \* the listing the remote catalog returns
    pc,             \* position of prepare_data
    events,         \* result of get_vault_events / get_basin_deals
    new_events,     \* result of check_events_cache
    cache_file,     \* root / "cache.json"
    data_dir,       \* root / "inputs": [exists, files]
    temp_dir_events,\* scratch directory of retrieved archives
    temp_dir_files, \* scratch directory of decoded column files
    idx,            \* loop position of retrieve_events
    pending,        \* list being dumped by the cache write
    error,          \* class of the exception that aborted the run
    result,         \* return value of prepare_data
    \* history of the current run
    prev,           \* how the previous run ended
    cache0,         \* cache file at the start of the run
    dir0,           \* data_dir at the start of the run
    writes,         \* completed cache writes
    calls,          \* invocations of the retrieval tool: [ev, outcome]
    dirOps,         \* changes made to data_dir
    queries,        \* invocations of the query layer, with the files seen
    unpack,         \* invocations of the unpack tool: [file, outcome]
    lf,             \* a call of create_lazyframe: [pc, max_retries, attempt, calls, err]
    ls,             \* a call of get_vault_events / get_basin_deals on its own
    lg,             \* command_setup followed by a call of err / log_err / log_warn
    qy              \* a call of an aggregate query: [pc, rows, start, end, selected]

vars == <<variant, remote, pc, events, new_events, cache_file, data_dir,
          temp_dir_events, temp_dir_files, idx, pending, error, result,
          prev, cache0, dir0, writes, calls, dirOps, queries, unpack, lf,
          ls, lg, qy>>

fn_vars == <<ls, lg, qy>>

hist_vars == <<prev, cache0, dir0, writes, calls, dirOps, queries>>

NoDir == [exists |-> FALSE, files |-> {}]

Dir(fs) == [exists |-> TRUE, files |-> fs]

\* a file of a directory: <<stem, suffix>>
ColumnFile(stem) == <<stem, "parquet">>

\* the names the retrieval tool may give the archive of the n-th event: it is
\* handed the cid and the directory only
Stems(c, n) == {<<c, 0>>, <<c, n>>}

InitCaches == {NoFile, FileWith(Truncated)} \cup
              {FileWith(dump(<<e>>)) : e \in Events}

InitDirs == {NoDir, Dir({ColumnFile(<<"old", 0>>)})}

Terminal == {"early_exit", "done", "error"}

\* the functions that are called on their own are not called
FnIdle == [pc |-> "idle"]

\* create_lazyframe not called
LfIdle == [pc |-> "idle", files |-> <<>>, max_retries |-> 0, attempt |-> 0,
           calls |-> <<>>, err |-> "none"]

\* create_lazyframe(remote_files, max_retries) about to be entered
LfInputs == {[LfIdle EXCEPT !.pc = "call", !.files = fs, !.max_retries = m] :
                fs \in SeqsUpTo({"u1", "u2"}, MaxList), m \in 0..MaxRetries}

Init ==
    /\ variant \in Variants
    /\ remote \in Listings
    /\ pc = "idle"
    /\ events = <<>>
    /\ new_events = <<>>
    /\ cache_file \in InitCaches
    /\ data_dir \in InitDirs
    /\ temp_dir_events = NoDir
    /\ temp_dir_files = NoDir
    /\ idx = 0
    /\ pending = <<>>
    /\ error = "none"
    /\ result = "none"
    /\ prev = "fresh"
    /\ cache0 = cache_file
    /\ dir0 = data_dir
    /\ writes = 0
    /\ calls = <<>>
    /\ dirOps = <<>>
    /\ queries = <<>>
    /\ unpack = {}
    /\ lf \in {LfIdle} \cup LfInputs
    /\ lf # LfIdle => /\ variant = "src"
                      /\ remote = <<>>
                      /\ cache_file = NoFile
                      /\ data_dir = NoDir
    /\ ls = FnIdle
    /\ lg = FnIdle
    /\ qy = FnIdle


(* ---------------------------------------------------------------------- *)
(* prepare_data, one action per step                                      *)
(* ---------------------------------------------------------------------- *)
EndKind == IF pc \in {"done", "early_exit"} THEN "completed"
           ELSE IF pc = "error" /\ writes > 0 THEN "failed_after_write"
           ELSE IF pc = "error" THEN "failed"
           ELSE "fresh"

\* what the coming run would append to the cache (bounds the cache length)
WouldAppend == IF ReadFails(cache_file) \/ remote = <<>> THEN <<>>
               ELSE LET new == check_events_cache(remote, cache_file)
                    IN IF new = <<>> THEN <<>> ELSE WriteArg(variant, remote, new)

\* get_vault_events / get_basin_deals: list the events; zero events is fatal
GetVaultEvents ==
    /\ pc \in {"idle"} \cup Terminal
    /\ lf.pc = "idle"
    /\ Len(cache_file.text.items) + Len(WouldAppend) <= MaxCache
    /\ events' = remote
    /\ IF remote = <<>>
       THEN pc' = "error" /\ error' = "ValueError"
       ELSE pc' = "fetched" /\ error' = "none"
    /\ new_events' = <<>>
    /\ idx' = 0
    /\ pending' = <<>>
    /\ result' = "none"
    /\ prev' = EndKind
    /\ cache0' = cache_file
    /\ dir0' = data_dir
    /\ writes' = 0
    /\ calls' = <<>>
    /\ dirOps' = <<>>
    /\ queries' = <<>>
    /\ UNCHANGED <<variant, remote, cache_file, data_dir, temp_dir_events, temp_dir_files>>
    /\ unpack' = {}
    /\ UNCHANGED lf
    /\ UNCHANGED fn_vars

\* between runs the remote catalog publishes an event, or its oldest event
\* leaves the listing
ChangeRemote ==
    /\ pc \in Terminal
    /\ \/ \E e \in Events : Len(remote) < MaxList /\ remote' = Append(remote, e)
       \/ remote # <<>> /\ remote' = Tail(remote)
    /\ pc' = "idle"
    /\ events' = <<>>
    /\ new_events' = <<>>
    /\ idx' = 0
    /\ pending' = <<>>
    /\ error' = "none"
    /\ result' = "none"
    /\ prev' = "fresh"
    /\ cache0' = cache_file
    /\ dir0' = data_dir
    /\ writes' = 0
    /\ calls' = <<>>
    /\ dirOps' = <<>>
    /\ queries' = <<>>
    /\ UNCHANGED <<variant, cache_file, data_dir, temp_dir_events, temp_dir_files>>
    /\ unpack' = {}
    /\ UNCHANGED lf
    /\ UNCHANGED fn_vars

\* check_events_cache / check_deals_cache
CheckEventsCache ==
    /\ pc = "fetched"
    /\ IF CheckRaises(events, cache_file) # "none"
       THEN /\ pc' = "error"
            /\ error' = CheckRaises(events, cache_file)
            /\ UNCHANGED new_events
       ELSE /\ pc' = "diffed"
            /\ new_events' = check_events_cache(events, cache_file)
            /\ UNCHANGED error
    /\ UNCHANGED <<variant, remote, events, cache_file, data_dir, temp_dir_events,
                   temp_dir_files, idx, pending, result>>
    /\ UNCHANGED hist_vars
    /\ UNCHANGED <<unpack, lf>>
    /\ UNCHANGED fn_vars

\* mutation: the early exit is never taken
NothingNewNever(new) == FALSE

\* prepare_data's test for the early exit
NothingNew(new) == Len(new) = 0

\* no new events: return None
EarlyExit ==
    /\ pc = "diffed"
    /\ NothingNew(new_events)
    /\ pc' = "early_exit"
    /\ result' = "None"
    /\ UNCHANGED <<variant, remote, events, new_events, cache_file, data_dir,
                   temp_dir_events, temp_dir_files, idx, pending, error>>
    /\ UNCHANGED hist_vars
    /\ UNCHANGED <<unpack, lf>>
    /\ UNCHANGED fn_vars

\* write_events_cache / write_deals_cache, up to open(cache_file, "w"):
\* the existing list is loaded and extended, then the file is truncated
WriteCacheOpen ==
    /\ pc = "diffed"
    /\ ~NothingNew(new_events)
    /\ IF WriteRaises(WriteArg(variant, events, new_events), cache_file) # "none"
       THEN /\ pc' = "error"
            /\ error' = WriteRaises(WriteArg(variant, events, new_events), cache_file)
            /\ UNCHANGED <<pending, cache_file>>
       ELSE /\ pc' = "cache_writing"
            /\ pending' = Extended(WriteArg(variant, events, new_events), cache_file)
            /\ cache_file' = FileWith(Truncated)
            /\ UNCHANGED error
    /\ UNCHANGED <<variant, remote, events, new_events, data_dir, temp_dir_events,
                   temp_dir_files, idx, result>>
    /\ UNCHANGED hist_vars
    /\ UNCHANGED <<unpack, lf>>
    /\ UNCHANGED fn_vars

\* dump(cached_events, f) runs to the end
WriteCacheDump ==
    /\ pc = "cache_writing"
    /\ cache_file' = FileWith(dump(pending))
    /\ writes' = writes + 1
    /\ pc' = "cache_updated"
    /\ UNCHANGED <<variant, remote, events, new_events, data_dir, temp_dir_events,
                   temp_dir_files, idx, pending, error, result>>
    /\ UNCHANGED <<prev, cache0, dir0, calls, dirOps, queries>>
    /\ UNCHANGED <<unpack, lf>>
    /\ UNCHANGED fn_vars

\* dump(cached_events, f) fails partway: part of the text is on disk
WriteCacheFail ==
    /\ pc = "cache_writing"
    /\ \E t \in PartialTexts(dump(pending)) : cache_file' = FileWith(t)
    /\ pc' = "error"
    /\ error' = "RuntimeError"
    /\ UNCHANGED <<variant, remote, events, new_events, data_dir, temp_dir_events,
                   temp_dir_files, idx, pending, result>>
    /\ UNCHANGED hist_vars
    /\ UNCHANGED <<unpack, lf>>
    /\ UNCHANGED fn_vars

\* set up root / "inputs": mkdir, or (basin_wxm only) unlink every file
\* mutation: an existing directory is never cleared
PreparedDirKeep(v, d) == IF ~d.exists THEN Dir({}) ELSE d

PreparedDir(v, d) == IF ~d.exists \/ v = "basin_wxm" THEN Dir({}) ELSE d

DirOp(v, d) == IF ~d.exists THEN <<"mkdir">>
               ELSE IF v = "basin_wxm" THEN <<"clear">> ELSE <<>>

PrepareDir ==
    /\ pc = "cache_updated"
    /\ data_dir' = PreparedDir(variant, data_dir)
    /\ dirOps' = dirOps \o DirOp(variant, data_dir)
    /\ pc' = "dir_ready"
    /\ UNCHANGED <<variant, remote, events, new_events, cache_file, temp_dir_events,
                   temp_dir_files, idx, pending, error, result>>
    /\ UNCHANGED <<prev, cache0, dir0, writes, calls, queries>>
    /\ UNCHANGED <<unpack, lf>>
    /\ UNCHANGED fn_vars

\* mkdir or unlink raises
PrepareDirFail ==
    /\ pc = "cache_updated"
    /\ DirOp(variant, data_dir) # <<>>
    /\ pc' = "error"
    /\ error' = "OSError"
    /\ UNCHANGED <<variant, remote, events, new_events, cache_file, data_dir,
                   temp_dir_events, temp_dir_files, idx, pending, result>>
    /\ UNCHANGED hist_vars
    /\ UNCHANGED <<unpack, lf>>
    /\ UNCHANGED fn_vars

\* extract_events: the guards pass, the first scratch directory is created
EnterExtract ==
    /\ pc = "dir_ready"
    /\ temp_dir_events' = Dir({})
    /\ idx' = 1
    /\ pc' = "retrieving"
    /\ UNCHANGED <<variant, remote, events, new_events, cache_file, data_dir,
                   temp_dir_files, pending, error, result>>
    /\ UNCHANGED hist_vars
    /\ UNCHANGED <<unpack, lf>>
    /\ UNCHANGED fn_vars

\* mutation: the whole listing is handed on
ExtractArgAll(evs, new) == evs

\* the list prepare_data hands to extract_events / extract_deals
ExtractArg(evs, new) == new

batch == ExtractArg(events, new_events)

ArchiveKinds == {"car", "parquet"}

Failures == {"timeout", "exit1"}

Call(e, o) == [ev |-> e, outcome |-> o]

\* retrieve_events, one loop iteration: the tool exits 0
RetrieveOK ==
    /\ pc = "retrieving"
    /\ idx <= Len(batch)
    /\ batch[idx].cid # ""
    /\ \E k \in ArchiveKinds, st \in Stems(batch[idx].cid, idx) :
          temp_dir_events' = Dir(temp_dir_events.files \cup {<<st, k>>})
    /\ calls' = Append(calls, Call(batch[idx], "ok"))
    /\ idx' = idx + 1
    /\ UNCHANGED <<variant, remote, pc, events, new_events, cache_file, data_dir,
                   temp_dir_files, pending, error, result>>
    /\ UNCHANGED <<prev, cache0, dir0, writes, dirOps, queries>>
    /\ UNCHANGED <<unpack, lf>>
    /\ UNCHANGED fn_vars

\* mutation: per-item failures are skipped
OnFailureContinue(f) == "continue"

\* what retrieve_events does after the tool exits non-zero: "raise" (err) or
\* "continue" with the next event
OnFailure(f) == "raise"

\* retrieve_events, one loop iteration: the tool exits non-zero
RetrieveFail ==
    /\ pc = "retrieving"
    /\ idx <= Len(batch)
    /\ batch[idx].cid # ""
    /\ \E f \in Failures :
          /\ calls' = Append(calls, Call(batch[idx], f))
          /\ IF OnFailure(f) = "raise"
             THEN /\ pc' = "error"
                  /\ error' = "RuntimeError"
                  /\ temp_dir_events' = NoDir
                  /\ UNCHANGED idx
             ELSE /\ idx' = idx + 1
                  /\ UNCHANGED <<pc, error, temp_dir_events>>
    /\ UNCHANGED <<variant, remote, events, new_events, cache_file, data_dir,
                   temp_dir_files, pending, result>>
    /\ UNCHANGED <<prev, cache0, dir0, writes, dirOps, queries>>
    /\ UNCHANGED <<unpack, lf>>
    /\ UNCHANGED fn_vars

\* what retrieve_events does with an event whose cid is missing or empty
OnNoCid == "raise"

\* retrieve_events, one loop iteration: event.get("cid") is falsy
RetrieveNoCid ==
    /\ pc = "retrieving"
    /\ idx <= Len(batch)
    /\ batch[idx].cid = ""
    /\ IF OnNoCid = "raise"
       THEN /\ pc' = "error"
            /\ error' = "ValueError"
            /\ temp_dir_events' = NoDir
            /\ UNCHANGED idx
       ELSE /\ idx' = idx + 1
            /\ UNCHANGED <<pc, error, temp_dir_events>>
    /\ UNCHANGED <<variant, remote, events, new_events, cache_file, data_dir,
                   temp_dir_files, pending, result>>
    /\ UNCHANGED hist_vars
    /\ UNCHANGED <<unpack, lf>>
    /\ UNCHANGED fn_vars

\* the archives extract_parquet hands to the unpack tool: the .car files;
\* extract_deals hands it every file of the scratch directory
Unpacked(v, files) == {f \in files : v = "src" \/ f[2] = "car"}

UnpackCall(f, o) == [file |-> f, outcome |-> o]

\* extract_parquet: every archive is unpacked or moved into temp_dir_files; the
\* tool may exit 0 without writing its output
ExtractParquet ==
    /\ pc = "retrieving"
    /\ idx > Len(batch)
    /\ \E E \in SUBSET Unpacked(variant, temp_dir_events.files) :
          /\ unpack' = {UnpackCall(f, IF f \in E THEN "empty" ELSE "ok") :
                           f \in Unpacked(variant, temp_dir_events.files)}
          /\ temp_dir_files' = Dir({ColumnFile(f[1]) : f \in temp_dir_events.files \ E})
    /\ pc' = "moving"
    /\ UNCHANGED <<variant, remote, events, new_events, cache_file, data_dir,
                   temp_dir_events, idx, pending, error, result>>
    /\ UNCHANGED hist_vars
    /\ UNCHANGED lf
    /\ UNCHANGED fn_vars

\* mutation: column files are moved as they are decoded, so a failed decode
\* leaves the files decoded before it in the target directory
ExtractParquetFailAfterMove ==
    /\ pc = "retrieving"
    /\ idx > Len(batch)
    /\ \E f \in temp_dir_events.files :
          /\ unpack' = IF f \in Unpacked(variant, temp_dir_events.files)
                       THEN {UnpackCall(f, "fail")} ELSE {}
          /\ data_dir' = Dir(data_dir.files \cup
                             {ColumnFile(g[1]) : g \in temp_dir_events.files \ {f}})
    /\ pc' = "error"
    /\ error' = "RuntimeError"
    /\ temp_dir_events' = NoDir
    /\ UNCHANGED <<variant, remote, events, new_events, cache_file,
                   temp_dir_files, idx, pending, result>>
    /\ UNCHANGED hist_vars
    /\ UNCHANGED lf
    /\ UNCHANGED fn_vars

\* mutation: a failed decode restores the cache file of the start of the run
ExtractParquetFailRollback ==
    /\ pc = "retrieving"
    /\ idx > Len(batch)
    /\ \E f \in temp_dir_events.files :
          unpack' = IF f \in Unpacked(variant, temp_dir_events.files)
                    THEN {UnpackCall(f, "fail")} ELSE {}
    /\ pc' = "error"
    /\ error' = "RuntimeError"
    /\ temp_dir_events' = NoDir
    /\ cache_file' = cache0
    /\ UNCHANGED <<variant, remote, events, new_events, data_dir,
                   temp_dir_files, idx, pending, result>>
    /\ UNCHANGED hist_vars
    /\ UNCHANGED lf
    /\ UNCHANGED fn_vars

\* extract_parquet: the unpack tool or a move raises
ExtractParquetFail ==
    /\ pc = "retrieving"
    /\ idx > Len(batch)
    /\ \E f \in temp_dir_events.files :
          unpack' = IF f \in Unpacked(variant, temp_dir_events.files)
                    THEN {UnpackCall(f, "fail")} ELSE {}
    /\ pc' = "error"
    /\ error' = "RuntimeError"
    /\ temp_dir_events' = NoDir
    /\ UNCHANGED <<variant, remote, events, new_events, cache_file, data_dir,
                   temp_dir_files, idx, pending, result>>
    /\ UNCHANGED hist_vars
    /\ UNCHANGED lf
    /\ UNCHANGED fn_vars

\* mutation: an existing destination ends the run in error
OnExistsRaise == "raise"

\* extract_events on shutil.Error "already exists": log_info, then return
OnExists == "log_info"

\* the column files whose name is taken in the target directory
Colliding(d, files) == files \cap d.files

\* what the move loop leaves in the target directory: shutil.move into a
\* directory (basin_wxm) raises on the first name that is taken, after any of
\* the other files were moved; shutil.move onto a file path (src) replaces it
Moved(v, d, files) ==
    IF v = "basin_wxm" /\ Colliding(d, files) # {}
    THEN {Dir(d.files \cup m) : m \in SUBSET (files \ Colliding(d, files))}
    ELSE {Dir(d.files \cup files)}

\* extract_events / extract_deals: the move loop over temp_dir_files
MoveFiles ==
    /\ pc = "moving"
    /\ data_dir' \in Moved(variant, data_dir, temp_dir_files.files)
    /\ temp_dir_events' = NoDir
    /\ temp_dir_files' = NoDir
    /\ IF variant = "basin_wxm" /\ Colliding(data_dir, temp_dir_files.files) # {}
       THEN /\ dirOps' = Append(dirOps, "exists")
            /\ IF OnExists = "raise"
               THEN pc' = "error" /\ error' = Raised("ShError")
               ELSE pc' = "extracted" /\ UNCHANGED error
       ELSE /\ dirOps' = Append(dirOps, "move")
            /\ pc' = "extracted"
            /\ UNCHANGED error
    /\ UNCHANGED <<variant, remote, events, new_events, cache_file, idx, pending,
                   result>>
    /\ UNCHANGED <<prev, cache0, dir0, writes, calls, queries>>
    /\ UNCHANGED <<unpack, lf>>
    /\ UNCHANGED fn_vars

\* mutation: the query layer is called while events are still being retrieved
CreateDatabaseEarly ==
    /\ pc \in {"retrieving", "extracted"}
    /\ queries' = Append(queries, data_dir.files)
    /\ result' = "db"
    /\ pc' = "done"
    /\ UNCHANGED <<variant, remote, events, new_events, cache_file, data_dir,
                   temp_dir_events, temp_dir_files, idx, pending, error>>
    /\ UNCHANGED <<prev, cache0, dir0, writes, calls, dirOps>>
    /\ UNCHANGED <<unpack, lf>>
    /\ UNCHANGED fn_vars

\* create_database(data_dir): the query layer is handed the directory
CreateDatabase ==
    /\ pc = "extracted"
    /\ queries' = Append(queries, data_dir.files)
    /\ result' = "db"
    /\ pc' = "done"
    /\ UNCHANGED <<variant, remote, events, new_events, cache_file, data_dir,
                   temp_dir_events, temp_dir_files, idx, pending, error>>
    /\ UNCHANGED <<prev, cache0, dir0, writes, calls, dirOps>>
    /\ UNCHANGED <<unpack, lf>>
    /\ UNCHANGED fn_vars

(* ---------------------------------------------------------------------- *)
(* create_lazyframe (src/src/query.py), called on its own                   *)
(* ---------------------------------------------------------------------- *)
\* outcomes of one scan_parquet call: a frame, a ComputeError whose message
\* holds "operation timed out", holds "429 Too Many Requests", or neither,
\* or an exception of another class
ScanOutcomes == {"ok", "timeout", "429", "compute_other", "exception"}

\* mutation: one attempt too many
MayAttemptOffByOne(attempt, max_retries) == attempt <= max_retries

\* the loop condition
MayAttempt(attempt, max_retries) == attempt < max_retries

\* mutation: rate limiting is retried as well
RetriedWith429(o) == o \in {"timeout", "429"}

\* the failures the loop retries
Retried(o) == o = "timeout"

\* mutation: a timeout leaves the attempt counter as it is
NextAttemptStuck(attempt) == attempt

\* "attempt += 1" after a timeout
NextAttempt(attempt) == attempt + 1

\* the error raised on a failure that is not retried: [class, what]
ScanError(o) == IF o = "429" THEN [class |-> Raised("ComputeError"), what |-> "rate_limit"]
                ELSE IF o = "compute_other" THEN [class |-> Raised("ComputeError"), what |-> "request_failed"]
                ELSE [class |-> Raised("RuntimeError"), what |-> "other"]

\* create_lazyframe is entered: no remote files is an invalid input
LfEnter ==
    /\ lf.pc = "call"
    /\ lf' = IF lf.files = <<>>
             THEN [lf EXCEPT !.pc = "raised",
                     !.err = [class |-> Raised("ValueError"), what |-> "no_files"]]
             ELSE [lf EXCEPT !.pc = "loop"]
    /\ UNCHANGED <<variant, remote, pc, events, new_events, cache_file, data_dir,
                   temp_dir_events, temp_dir_files, idx, pending, error, result>>
    /\ UNCHANGED <<hist_vars, unpack>>
    /\ UNCHANGED fn_vars

\* one iteration of the while loop
LfAttempt ==
    /\ lf.pc = "loop"
    /\ MayAttempt(lf.attempt, lf.max_retries)
    /\ \E o \in ScanOutcomes :
          lf' = IF o = "ok"
                THEN [lf EXCEPT !.pc = "returned", !.calls = Append(@, o)]
                ELSE IF Retried(o)
                THEN [lf EXCEPT !.attempt = NextAttempt(@), !.calls = Append(@, o)]
                ELSE [lf EXCEPT !.pc = "raised", !.calls = Append(@, o),
                        !.err = ScanError(o)]
    /\ UNCHANGED <<variant, remote, pc, events, new_events, cache_file, data_dir,
                   temp_dir_events, temp_dir_files, idx, pending, error, result>>
    /\ UNCHANGED <<hist_vars, unpack>>
    /\ UNCHANGED fn_vars

\* the loop is left: all retries failed
LfExhausted ==
    /\ lf.pc = "loop"
    /\ ~MayAttempt(lf.attempt, lf.max_retries)
    /\ lf' = [lf EXCEPT !.pc = "raised",
                !.err = [class |-> Raised("ComputeError"), what |-> "all_retries_failed"]]
    /\ UNCHANGED <<variant, remote, pc, events, new_events, cache_file, data_dir,
                   temp_dir_events, temp_dir_files, idx, pending, error, result>>
    /\ UNCHANGED <<hist_vars, unpack>>
    /\ UNCHANGED fn_vars

Next ==
    \/ LfEnter
    \/ LfAttempt
    \/ LfExhausted
    \/ GetVaultEvents
    \/ ChangeRemote
    \/ CheckEventsCache
    \/ EarlyExit
    \/ WriteCacheOpen
    \/ WriteCacheDump
    \/ WriteCacheFail
    \/ PrepareDir
    \/ PrepareDirFail
    \/ EnterExtract
    \/ RetrieveOK
    \/ RetrieveFail
    \/ RetrieveNoCid
    \/ ExtractParquet
    \/ ExtractParquetFail
    \/ MoveFiles
    \/ CreateDatabase

Spec == Init /\ [][Next]_vars

(* ---------------------------------------------------------------------- *)
(* The cache functions called on their own, on any list and any file      *)
(* ---------------------------------------------------------------------- *)
CacheStates == {NoFile, FileWith(Truncated)} \cup {FileWith(dump(l)) : l \in Listings}

InitCache ==
    /\ variant \in Variants
    /\ events \in Listings
    /\ cache_file \in CacheStates
    /\ cache0 = cache_file
    /\ pc = "call"
    /\ remote = <<>>
    /\ new_events = <<>>
    /\ data_dir = NoDir
    /\ temp_dir_events = NoDir
    /\ temp_dir_files = NoDir
    /\ idx = 0
    /\ pending = <<>>
    /\ error = "none"
    /\ result = "none"
    /\ prev = "fresh"
    /\ dir0 = NoDir
    /\ writes = 0
    /\ calls = <<>>
    /\ dirOps = <<>>
    /\ queries = <<>>
    /\ unpack = {}
    /\ lf = LfIdle
    /\ ls = FnIdle
    /\ lg = FnIdle
    /\ qy = FnIdle

\* read_events_cache(cache_file); the list returned is kept in pending
CallRead ==
    /\ pc = "call"
    /\ IF ReadFails(cache_file)
       THEN /\ pc' = "read_raised"
            /\ error' = Raised("JSONDecodeError")
            /\ UNCHANGED pending
       ELSE /\ pc' = "read_returned"
            /\ pending' = read_events_cache(cache_file)
            /\ UNCHANGED error
    /\ UNCHANGED <<variant, remote, events, new_events, cache_file, data_dir,
                   temp_dir_events, temp_dir_files, idx, result>>
    /\ UNCHANGED <<hist_vars, unpack, lf>>
    /\ UNCHANGED fn_vars

\* check_events_cache(events, cache_file); the list returned is kept in new_events
CallCheck ==
    /\ pc = "call"
    /\ IF CheckRaises(events, cache_file) # "none"
       THEN /\ pc' = "check_raised"
            /\ error' = CheckRaises(events, cache_file)
            /\ UNCHANGED new_events
       ELSE /\ pc' = "check_returned"
            /\ new_events' = check_events_cache(events, cache_file)
            /\ UNCHANGED error
    /\ UNCHANGED <<variant, remote, events, cache_file, data_dir, temp_dir_events,
                   temp_dir_files, idx, pending, result>>
    /\ UNCHANGED <<hist_vars, unpack, lf>>
    /\ UNCHANGED fn_vars

\* write_events_cache(events, cache_file), up to open(cache_file, "w")
CallWrite ==
    /\ pc = "call"
    /\ IF WriteRaises(events, cache_file) # "none"
       THEN /\ pc' = "write_raised"
            /\ error' = WriteRaises(events, cache_file)
            /\ UNCHANGED <<pending, cache_file>>
       ELSE /\ pc' = "cache_writing"
            /\ pending' = Extended(events, cache_file)
            /\ cache_file' = FileWith(Truncated)
            /\ UNCHANGED error
    /\ UNCHANGED <<variant, remote, events, new_events, data_dir, temp_dir_events,
                   temp_dir_files, idx, result>>
    /\ UNCHANGED <<hist_vars, unpack, lf>>
    /\ UNCHANGED fn_vars

NextCache ==
    \/ CallRead
    \/ CallCheck
    \/ CallWrite
    \/ WriteCacheDump
    \/ WriteCacheFail

SpecCache == InitCache /\ [][NextCache]_vars

(* ---------------------------------------------------------------------- *)
(* extract_events / extract_deals called on a list of events and a target *)
(* directory that may hold files, followed by create_database             *)
(* ---------------------------------------------------------------------- *)
TargetDirs == {Dir(fs) : fs \in SUBSET {ColumnFile(<<"c1", 0>>), ColumnFile(<<"c2", 0>>),
                                         ColumnFile(<<"old", 0>>)}}

InitExtract ==
    /\ variant \in Variants
    /\ new_events \in Listings \ {<<>>}
    /\ events = new_events
    /\ remote = new_events
    /\ data_dir \in TargetDirs
    /\ dir0 = data_dir
    /\ cache_file = FileWith(dump(new_events))
    /\ cache0 = NoFile
    /\ pc = "dir_ready"
    /\ temp_dir_events = NoDir
    /\ temp_dir_files = NoDir
    /\ idx = 0
    /\ pending = <<>>
    /\ error = "none"
    /\ result = "none"
    /\ prev = "fresh"
    /\ writes = 1
    /\ calls = <<>>
    /\ dirOps = <<>>
    /\ queries = <<>>
    /\ unpack = {}
    /\ lf = LfIdle
    /\ ls = FnIdle
    /\ lg = FnIdle
    /\ qy = FnIdle

NextExtract ==
    \/ EnterExtract
    \/ RetrieveOK
    \/ RetrieveFail
    \/ RetrieveNoCid
    \/ ExtractParquet
    \/ ExtractParquetFail
    \/ MoveFiles
    \/ CreateDatabase

SpecExtract == InitExtract /\ [][NextExtract]_vars

(* ---------------------------------------------------------------------- *)
(* The pipeline and create_lazyframe stay where they are while a function *)
(* is called on its own                                                   *)
(* ---------------------------------------------------------------------- *)
ParkedPipeline ==
    /\ remote = <<>>
    /\ pc = "idle"
    /\ events = <<>>
    /\ new_events = <<>>
    /\ cache_file = NoFile
    /\ data_dir = NoDir
    /\ temp_dir_events = NoDir
    /\ temp_dir_files = NoDir
    /\ idx = 0
    /\ pending = <<>>
    /\ error = "none"
    /\ result = "none"
    /\ prev = "fresh"
    /\ cache0 = NoFile
    /\ dir0 = NoDir
    /\ writes = 0
    /\ calls = <<>>
    /\ dirOps = <<>>
    /\ queries = <<>>
    /\ unpack = {}

Parked == ParkedPipeline /\ lf = LfIdle

pipeline_vars == <<variant, remote, pc, events, new_events, cache_file, data_dir,
                   temp_dir_events, temp_dir_files, idx, pending, error, result,
                   prev, cache0, dir0, writes, calls, dirOps, queries, unpack, lf>>

(* ---------------------------------------------------------------------- *)
(* create_lazyframe called on its own with any max_retries, zero and      *)
(* negative included; a call that has begun runs on until it returns or   *)
(* raises                                                                 *)
(* ---------------------------------------------------------------------- *)
RetryLimits == (0 - 1)..MaxRetries

InitLf ==
    /\ ParkedPipeline
    /\ variant = "src"
    /\ ls = FnIdle
    /\ lg = FnIdle
    /\ qy = FnIdle
    /\ \E fs \in SeqsUpTo({"u1", "u2"}, MaxList), m \in RetryLimits :
          lf = [LfIdle EXCEPT !.pc = "call", !.files = fs, !.max_retries = m]

NextLf ==
    \/ LfEnter
    \/ LfAttempt
    \/ LfExhausted

SpecLf == InitLf /\ [][NextLf]_vars /\ WF_vars(NextLf)

(* ---------------------------------------------------------------------- *)
(* get_vault_events(vault) / get_basin_deals(pubs) called on their own    *)
(* ---------------------------------------------------------------------- *)
\* the scope handed in: one vault name, possibly empty (basin_wxm), or a list
\* of publication names, possibly empty (src)
ScopeInputs(v) == IF v = "basin_wxm" THEN {<<"">>, <<"v1">>}
                  ELSE SeqsUpTo({"p1", "p2"}, MaxList)

\* what one listing request can give: a body that decodes to a list of
\* events, no body (status other than 200 / empty stdout), a transport
\* failure (RequestException / non-zero exit), a body that does not decode
UnitLists == SeqsUpTo({Event("c1", 0), Event("c2", 0)}, MaxList)

Responses == {[kind |-> "body", events |-> l] : l \in UnitLists} \cup
             {[kind |-> k, events |-> <<>>] : k \in {"nobody", "transport", "malformed"}}

\* mutation: a body that decodes to an empty list is warned about as well
WarnedAlsoEmptyList(r) == r.kind = "nobody" \/ (r.kind = "body" /\ r.events = <<>>)

\* the responses that take the log_warn branch
Warned(r) == r.kind = "nobody"

\* "if not vault" / "if not pubs"
NoScope(v, units) == IF v = "basin_wxm" THEN units[1] = "" ELSE Len(units) = 0

\* the class of the exception a failed request raises in the called code
FailureClass(v, kind) ==
    IF kind = "malformed" THEN "JSONDecodeError"
    ELSE IF v = "basin_wxm" THEN "RequestException" ELSE "CalledProcessError"

InitList ==
    /\ Parked
    /\ variant \in Variants
    /\ ls \in {[pc |-> "call", units |-> u, i |-> 1, requests |-> <<>>, out |-> <<>>,
                 got |-> <<>>, warns |-> <<>>, failed |-> "none", err |-> "none"] :
                    u \in ScopeInputs(variant)}
    /\ lg = FnIdle
    /\ qy = FnIdle

\* the input check before the loop
ListEnter ==
    /\ ls.pc = "call"
    /\ ls' = IF NoScope(variant, ls.units)
             THEN [ls EXCEPT !.pc = "raised", !.err = Raised("ValueError")]
             ELSE [ls EXCEPT !.pc = "loop"]
    /\ UNCHANGED <<pipeline_vars, lg, qy>>

\* one request for the next unit, and what the code does with its outcome
ListRequest ==
    /\ ls.pc = "loop"
    /\ ls.i <= Len(ls.units)
    /\ \E r \in Responses :
          ls' = IF r.kind \in {"body", "nobody"}
                THEN [ls EXCEPT !.requests = Append(@, ls.units[ls.i]),
                                !.out = @ \o r.events,
                                !.got = Append(@, r),
                                !.warns = IF Warned(r) THEN Append(@, ls.i) ELSE @,
                                !.i = @ + 1]
                ELSE [ls EXCEPT !.requests = Append(@, ls.units[ls.i]),
                                !.pc = "raised",
                                !.failed = FailureClass(variant, r.kind),
                                !.err = Raised(FailureClass(variant, r.kind))]
    /\ UNCHANGED <<pipeline_vars, lg, qy>>

\* after the loop: no events for any unit is an error
ListFinish ==
    /\ ls.pc = "loop"
    /\ ls.i > Len(ls.units)
    /\ ls' = IF Len(ls.out) = 0
             THEN [ls EXCEPT !.pc = "raised", !.err = Raised("ValueError")]
             ELSE [ls EXCEPT !.pc = "returned"]
    /\ UNCHANGED <<pipeline_vars, lg, qy>>

NextList ==
    \/ ListEnter
    \/ ListRequest
    \/ ListFinish

SpecList == InitList /\ [][NextList]_vars

(* ---------------------------------------------------------------------- *)
(* The exit status of the process.  main() catches RuntimeError and calls *)
(* sys.exit(1); an exception of any other class leaves main() uncaught,   *)
(* and the interpreter ends with status 1; a return from main() ends the  *)
(* process with status 0.                                                 *)
(* ---------------------------------------------------------------------- *)
\* mutation: only the error main() catches gives a non-zero status
ExitCodeCaughtOnly(raised) == IF raised = "RuntimeError" THEN 1 ELSE 0

ExitCode(raised) ==
    IF raised = "none" THEN 0
    ELSE IF raised = "RuntimeError" THEN 1
    ELSE 1

\* what leaves the stages and reaches the driver: nothing when prepare_data
\* returns (None on the early exit), the error when a stage raises
DriverOutcome(at, raised) == IF at = "error" THEN raised ELSE "none"

(* ---------------------------------------------------------------------- *)
(* The logging helpers of utils.py after command_setup: config.py's       *)
(* log_traceback is assigned by command_setup, while utils.py tests the   *)
(* name it bound with "from .config import log_traceback" when it was     *)
(* imported.                                                              *)
(* ---------------------------------------------------------------------- *)
\* what --verbose parses to: absent (default=True), or type=int of its text
VerboseValues == {"True", "0", "1"}

\* "log_traceback = True" at module level of config.py
ModuleDefault == "True"

\* "from .config import log_traceback": the value config.py's name has when
\* utils.py is imported
ImportedFlag(config_flag) == config_flag

Helpers == {"err", "log_err", "log_warn"}

\* the classes callers hand to err: the default, ValueError, type(e) of a
\* caught error, and type(Exception), which is the metaclass "type"
CallerTypes == {"RuntimeError", "ValueError", "RequestException",
                "JSONDecodeError", "CalledProcessError", "OSError", "type"}

\* "if log_traceback is True"
TracebackOn(flag) == flag = "True"

InitLog ==
    /\ Parked
    /\ variant \in Variants
    /\ ls = FnIdle
    /\ qy = FnIdle
    /\ lg \in {[pc |-> "imported", verbose |-> vb, fn |-> f, e_type |-> t,
                config_flag |-> ModuleDefault,
                utils_flag |-> ImportedFlag(ModuleDefault),
                traceback |-> FALSE, raised |-> "none", returned |-> FALSE] :
               vb \in VerboseValues, f \in Helpers, t \in CallerTypes}

\* command_setup: "global log_traceback; ... log_traceback = args.verbose"
CommandSetup ==
    /\ lg.pc = "imported"
    /\ lg' = [lg EXCEPT !.pc = "set_up", !.config_flag = lg.verbose]
    /\ UNCHANGED <<pipeline_vars, ls, qy>>

\* err / log_err / log_warn: the traceback is logged when utils.py's own
\* name is True; err then raises e_type(message), the other two return
LogCall ==
    /\ lg.pc = "set_up"
    /\ lg' = [lg EXCEPT !.pc = "done",
                        !.traceback = TracebackOn(lg.utils_flag),
                        !.raised = IF lg.fn = "err" THEN Raised(lg.e_type) ELSE "none",
                        !.returned = lg.fn # "err"]
    /\ UNCHANGED <<pipeline_vars, ls, qy>>

NextLog ==
    \/ CommandSetup
    \/ LogCall

SpecLog == InitLog /\ [][NextLog]_vars

(* ---------------------------------------------------------------------- *)
(* The aggregate queries and their optional time bounds.  A table is the  *)
(* set of its rows' timestamps; a bound is given or None.                 *)
(* ---------------------------------------------------------------------- *)
Timestamps == 0..MaxTs

NoBound == [given |-> FALSE, at |-> 0]

Bounds == {NoBound} \cup {[given |-> TRUE, at |-> t] : t \in Timestamps}

QueryFns(v) == IF v = "basin_wxm"
               THEN {"execute_queries", "query_bbox"}
               ELSE {"query_average_all", "query_agg_precipitation_acc"}

\* basin_wxm: the WHERE clause built from whichever bounds are given
WhereClause(rows, start, end) ==
    IF start.given /\ end.given
    THEN {t \in rows : t >= start.at /\ t <= end.at}
    ELSE IF start.given THEN {t \in rows : t >= start.at}
    ELSE IF end.given THEN {t \in rows : t <= end.at}
    ELSE rows

\* earlier revision: "if start is None or end is None" selects from the
\* whole frame, the two elif branches can then not be taken, and the last
\* branch filters with > and <
LazyFilter(rows, start, end) ==
    IF ~start.given \/ ~end.given THEN rows
    ELSE IF start.given /\ ~end.given THEN {t \in rows : t > start.at}
    ELSE IF ~start.given /\ end.given THEN {t \in rows : t < end.at}
    ELSE {t \in rows : t > start.at /\ t < end.at}

Aggregated(v, rows, start, end) ==
    IF v = "basin_wxm" THEN WhereClause(rows, start, end)
    ELSE LazyFilter(rows, start, end)

InitQuery ==
    /\ Parked
    /\ variant \in Variants
    /\ ls = FnIdle
    /\ lg = FnIdle
    /\ qy \in {[pc |-> "call", fn |-> f, rows |-> r, start |-> s, end |-> e,
                aggregated |-> {}] :
               f \in QueryFns(variant), r \in SUBSET Timestamps,
               s \in Bounds, e \in Bounds}

\* the query is executed over the rows its filter keeps
RunQuery ==
    /\ qy.pc = "call"
    /\ qy' = [qy EXCEPT !.pc = "returned",
                        !.aggregated = Aggregated(variant, qy.rows, qy.start, qy.end)]
    /\ UNCHANGED <<pipeline_vars, ls, lg>>

NextQuery == RunQuery

SpecQuery == InitQuery /\ [][NextQuery]_vars

TypeOK ==
    /\ variant \in Variants
    /\ remote \in Listings
    /\ pc \in {"idle", "fetched", "diffed", "cache_writing", "cache_updated",
               "dir_ready", "retrieving", "moving", "extracted", "call",
               "read_returned", "read_raised", "check_returned", "check_raised",
               "write_raised"} \cup Terminal
    /\ idx \in 0..(MaxList + 1)
    /\ writes \in 0..1
    /\ \A u \in unpack : u.file[2] \in ArchiveKinds /\ u.outcome \in {"ok", "empty", "fail"}
    /\ lf.pc \in {"idle", "call", "loop", "returned", "raised"}
    /\ lf.attempt \in 0..MaxRetries
    /\ lf.max_retries \in (0 - 1)..MaxRetries
    /\ Len(lf.calls) <= MaxRetries


(* ---------------------------------------------------------------------- *)
(* Properties                                                             *)
(* ---------------------------------------------------------------------- *)
\* the JSON object of an event, as it stands in the cache file
Entry(e) == <<e.cid, e.extra>>

Entries(file) == IF file.exists THEN file.text.items ELSE <<>>

\* positions of L whose event equals no entry of the cache file
KeptPos(L, file) ==
    {i \in 1..Len(L) : \A j \in 1..Len(Entries(file)) : Entries(file)[j] # Entry(L[i])}

NthOf(P, k) == CHOOSE i \in P : Cardinality({j \in P : j < i}) = k - 1

Readable(file) == ~file.exists \/ file.text.closed

Distinct(L) == \A i, j \in 1..Len(L) : i # j => L[i] # L[j]

DistinctCids(L) == \A i, j \in 1..Len(L) : i # j => L[i].cid # L[j].cid

InRun == pc \notin {"idle", "fetched"}

\* C1: the diff returns exactly the candidates, in the candidates' order, that
\* equal no cache entry field by field; with no cache file it returns the
\* whole candidate list.
C1_DiffIsStructuralSubsequence ==
    pc = "diffed" =>
        /\ Len(new_events) = Cardinality(KeptPos(events, cache_file))
        /\ \A k \in 1..Len(new_events) :
              new_events[k] = events[NthOf(KeptPos(events, cache_file), k)]
        /\ (~cache_file.exists => new_events = events)

\* a candidate sharing its cid with a cache entry is returned as new while an
\* equal candidate is dropped
C1_Witness ==
    /\ pc = "diffed"
    /\ cache_file.exists
    /\ Len(new_events) = 1
    /\ Len(events) = 2
    /\ \E j \in 1..Len(Entries(cache_file)) :
          /\ Entries(cache_file)[j][1] = new_events[1].cid
          /\ Entries(cache_file)[j] = Entry(events[1])

\* C2: after a successful cache write, reading the file gives the old list
\* followed by the list written, nothing dropped, reordered or deduplicated.
C2_AppendIsConcatenation ==
    pc = "cache_updated" =>
        LET old == Entries(cache0)
            arg == WriteArg(variant, events, new_events)
            now == read_events_cache(cache_file)
        IN /\ ~ReadFails(cache_file)
           /\ Len(now) = Len(old) + Len(arg)
           /\ \A i \in 1..Len(old) : Entry(now[i]) = old[i]
           /\ \A i \in 1..Len(arg) : now[Len(old) + i] = arg[i]

\* a non-empty old cache extended by a list that holds the same event twice
C2_Witness ==
    /\ pc = "cache_updated"
    /\ Len(Entries(cache0)) > 0
    /\ Len(new_events) = 2
    /\ new_events[1] = new_events[2]
    /\ Len(read_events_cache(cache_file)) = 3

\* C3 (as claimed): a run that finds new events writes the cache once, before
\* the first retrieval, and leaves the old cache followed by the new events.
C3_WriteOnceOldPlusNew ==
    /\ writes <= 1
    /\ (pc \in {"dir_ready", "retrieving", "moving", "extracted", "done"} \/ calls # <<>>)
          => writes = 1
    /\ (writes = 1 /\ pc \in Terminal) =>
          /\ ~ReadFails(cache_file)
          /\ read_events_cache(cache_file) = read_events_cache(cache0) \o new_events

\* C4: a run that follows a completed run with the same listing finds no new
\* event, returns None and touches neither cache file, directory, retrieval
\* tool nor query layer.
C4_RerunIsNoOp ==
    (prev = "completed" /\ InRun) =>
        /\ pc \in {"diffed", "early_exit"}
        /\ new_events = <<>>
        /\ cache_file = cache0
        /\ data_dir = dir0
        /\ dirOps = <<>>
        /\ calls = <<>>
        /\ queries = <<>>
        /\ (pc = "early_exit" => result = "None")

\* the second run has exited early after a run that retrieved and moved files
C4_Witness ==
    /\ prev = "completed"
    /\ pc = "early_exit"
    /\ Len(events) = 2
    /\ \E f \in data_dir.files : f[1][1] \in {"c1", "c2"}

C6_FailedWriteKeepsOldEntries ==
    (pc = "error" /\ pending # <<>> /\ writes = 0) =>
        IsPrefix(Entries(cache0), Entries(cache_file))

\* C7: a failure after the cache write aborts the run with an error and leaves
\* the written cache in place, so the next run over the same listing finds
\* nothing new and retrieves nothing.
C7_NoRollbackAfterWrite ==
    /\ (pc = "error" /\ writes > 0) =>
          /\ error # "none"
          /\ result = "none"
          /\ queries = <<>>
          /\ ~ReadFails(cache_file)
          /\ \A i \in 1..Len(new_events) :
                \E j \in 1..Len(Entries(cache_file)) :
                    Entries(cache_file)[j] = Entry(new_events[i])
    /\ (prev = "failed_after_write" /\ InRun) =>
          /\ pc \in {"diffed", "early_exit"}
          /\ new_events = <<>>
          /\ calls = <<>>

\* the run after a failed retrieval or decode has exited early
C7_Witness ==
    /\ prev = "failed_after_write"
    /\ pc = "early_exit"
    /\ events # <<>>
    /\ ~cache0.exists \/ Len(Entries(cache0)) >= 1

\* C8: the first failing retrieval, or the first event without a cid, ends the
\* batch with RuntimeError resp. ValueError; every event before it was
\* attempted in order, none after it, none skipped.
C8_RetrievalFailFast ==
    /\ \A i \in 1..Len(calls) :
          /\ calls[i].ev = batch[i]
          /\ calls[i].ev.cid # ""
          /\ calls[i].outcome # "ok" =>
                (i = Len(calls) /\ pc = "error" /\ error = "RuntimeError")
    /\ (pc = "retrieving" => Len(calls) = idx - 1)
    /\ (pc \in {"moving", "extracted", "done"} => Len(calls) = Len(batch))
    /\ (pc = "error" /\ error = "ValueError" /\ events # <<>>) =>
          /\ Len(calls) < Len(batch)
          /\ batch[Len(calls) + 1].cid = ""
          /\ ~temp_dir_events.exists
    /\ (pc = "error" /\ writes > 0) =>
          /\ data_dir.files \subseteq dir0.files
          /\ result = "none"

\* the first of two events failed and the second was not attempted
C8_Witness ==
    /\ pc = "error"
    /\ error = "RuntimeError"
    /\ Len(batch) = 2
    /\ Len(calls) = 1
    /\ calls[1].outcome # "ok"

\* C9: a run without failure retrieves exactly the new events, each once, in
\* the order of the diff, none of them equal to an entry the cache held at
\* the start, whatever their extra metadata.
C9_RetrievesExactlyNewEvents ==
    pc \in {"moving", "extracted", "done"} =>
        /\ Len(calls) = Len(new_events)
        /\ \A i \in 1..Len(calls) :
              /\ calls[i].ev = new_events[i]
              /\ calls[i].outcome = "ok"
              /\ \A j \in 1..Len(Entries(cache0)) : Entries(cache0)[j] # Entry(calls[i].ev)

\* a cached event was left out and an event with extra metadata was retrieved
C9_Witness ==
    /\ pc = "done"
    /\ Len(new_events) < Len(events)
    /\ \E i \in 1..Len(calls) : calls[i].ev.extra = 1

\* C10 (as claimed): a run aborts on a transient retrieval failure only after
\* the same content identifier was tried again.
C10_TransientFailureRetried ==
    (pc = "error" /\ calls # <<>> /\ calls[Len(calls)].outcome = "timeout") =>
        /\ Len(calls) >= 2
        /\ calls[Len(calls) - 1].ev.cid = calls[Len(calls)].ev.cid
        /\ calls[Len(calls) - 1].outcome = "timeout"

AllTimeouts(cs) == \A i \in 1..Len(cs) : cs[i] = "timeout"

\* C11: create_lazyframe never makes more than max_retries attempts; when
\* every attempt timed out and the loop is left, exactly max_retries attempts
\* were made and the error raised is "All retries failed"; that error is
\* raised only in this case.
C11_TimeoutsExhaustRetries ==
    /\ Len(lf.calls) <= lf.max_retries
    /\ lf.attempt = Cardinality({i \in 1..Len(lf.calls) : lf.calls[i] = "timeout"})
    /\ (lf.pc \in {"returned", "raised"} /\ lf.files # <<>> /\ AllTimeouts(lf.calls)) =>
          /\ Len(lf.calls) = lf.max_retries
          /\ lf.pc = "raised"
          /\ lf.err = [class |-> "ComputeError", what |-> "all_retries_failed"]
    /\ (lf.pc = "raised" /\ lf.err.what = "all_retries_failed") =>
          /\ Len(lf.calls) = lf.max_retries
          /\ AllTimeouts(lf.calls)

\* the largest number of retries, all timed out, and the call has failed
C11_Witness ==
    /\ lf.pc = "raised"
    /\ lf.max_retries = MaxRetries
    /\ Len(lf.calls) = MaxRetries
    /\ AllTimeouts(lf.calls)
    /\ lf.err.what = "all_retries_failed"

\* C12: a failure of create_lazyframe's fetch other than a timeout is the last
\* attempt of the call and its error is raised at once, as what the failure
\* was; a failure of the unpack tool ends the run in error with no second run
\* of the tool, no move and no query.
C12_NonTransientNotRetried ==
    /\ \A i \in 1..Len(lf.calls) : lf.calls[i] \notin {"ok", "timeout"} =>
          /\ i = Len(lf.calls)
          /\ lf.pc = "raised"
          /\ lf.err.what = (CASE lf.calls[i] = "429" -> "rate_limit"
                              [] lf.calls[i] = "compute_other" -> "request_failed"
                              [] OTHER -> "other")
          /\ lf.err.class = (IF lf.calls[i] = "exception" THEN "RuntimeError"
                             ELSE "ComputeError")
    /\ \A u \in unpack : u.outcome = "fail" =>
          /\ pc = "error"
          /\ error = "RuntimeError"
          /\ unpack = {u}
          /\ result = "none"
          /\ queries = <<>>
          /\ data_dir = PreparedDir(variant, dir0)

\* a rate-limit failure after a timeout
C12_Witness ==
    /\ lf.pc = "raised"
    /\ Len(lf.calls) = 2
    /\ lf.calls[1] = "timeout"
    /\ lf.calls[2] = "429"
    /\ lf.max_retries = MaxRetries

\* C13: check_events_cache and write_events_cache called with an empty list
\* raise ValueError whatever the cache file is (absent, undecodable or a
\* list), and the file is as it was before the call.
C13_EmptyInputRejected ==
    (events = <<>> /\ pc \notin {"call", "read_returned", "read_raised"}) =>
        /\ pc \in {"check_raised", "write_raised"}
        /\ error = "ValueError"
        /\ cache_file = cache0

\* write_events_cache([], f) on a file that does not decode
C13_Witness ==
    /\ events = <<>>
    /\ pc = "write_raised"
    /\ ReadFails(cache0)
    /\ error = "ValueError"

\* C14 (as claimed): read_events_cache returns [] when there is no file and
\* the whole list when the file decodes; on a file that does not decode both
\* read_events_cache and check_events_cache fail with the decode error's
\* class and leave the file as it was.
C14_CorruptCacheRaisesDecodeError ==
    /\ pc = "read_returned" =>
          /\ ~ReadFails(cache0)
          /\ pending = (IF cache0.exists THEN loads(cache0.text) ELSE <<>>)
    /\ pc = "read_raised" =>
          /\ ReadFails(cache0)
          /\ error = "JSONDecodeError"
          /\ cache_file = cache0
    /\ (pc = "check_raised" /\ events # <<>>) =>
          /\ ReadFails(cache0)
          /\ error = "JSONDecodeError"
          /\ cache_file = cache0
    /\ (pc = "check_returned") => ~ReadFails(cache0)

\* C15: a listing of no events ends the run in ValueError with no diff, the
\* cache file as it was and nothing done after it; a diff that leaves no new
\* event ends the run with None and no error, with no cache write, no
\* directory change, no retrieval, no unpack and no query.
C15_NoEventsFatalNoNewEventsExit ==
    /\ (events = <<>> /\ pc # "idle") =>
          /\ pc = "error"
          /\ error = "ValueError"
          /\ new_events = <<>>
          /\ cache_file = cache0
    /\ (new_events = <<>> /\ pc \notin {"idle", "fetched", "error"}) =>
          pc \in {"diffed", "early_exit"}
    /\ pc = "early_exit" =>
          /\ new_events = <<>>
          /\ result = "None"
          /\ error = "none"
    /\ (new_events = <<>> /\ pc # "idle") =>
          /\ cache_file = cache0
          /\ data_dir = dir0
          /\ writes = 0
          /\ calls = <<>>
          /\ dirOps = <<>>
          /\ unpack = {}
          /\ queries = <<>>
          /\ result \in {"none", "None"}

\* every listed event is in the cache: the run has returned None
C15_Witness ==
    /\ pc = "early_exit"
    /\ Len(events) = MaxList
    /\ cache0.exists
    /\ result = "None"

\* the stages of one pass, in order, and the pc steps between them
Stages == <<"fetched", "diffed", "cache_writing", "cache_updated", "dir_ready",
            "retrieving", "moving", "extracted", "done">>

AllowedSteps ==
    {<<Stages[i], Stages[i + 1]>> : i \in 1..(Len(Stages) - 1)}
        \cup {<<"diffed", "early_exit">>}
        \cup {<<Stages[i], "error">> : i \in 1..(Len(Stages) - 1)}
        \cup {<<p, q>> : p \in {"idle"} \cup Terminal, q \in {"fetched", "error"}}
        \cup {<<p, "idle">> : p \in Terminal}

\* C16: within a pass pc moves only one stage forward, to the early exit
\* after the diff, or to error; a new pass starts only from a finished one;
\* the cache is written only on the way from the diff to the updated cache and
\* after the early exit or the end of a pass nothing changes the cache file
\* or the directory; the pass is done only after every new event was
\* retrieved, every archive went through the decode step and the files were
\* moved.
C16_StagesInOrder ==
    [][/\ pc' # pc => <<pc, pc'>> \in AllowedSteps
       /\ (pc' = pc /\ pc \notin {"idle"} \cup Terminal) => pc = "retrieving" /\ idx' = idx + 1
       /\ pc \in Terminal => /\ cache_file' = cache_file
                              /\ data_dir' = data_dir
                              /\ temp_dir_events' = temp_dir_events
                              /\ temp_dir_files' = temp_dir_files
       /\ cache_file' # cache_file => pc \in {"diffed", "cache_writing"}
       /\ pc' = "early_exit" => new_events = <<>>
       /\ pc' = "cache_writing" => new_events # <<>>
       /\ pc' = "done" =>
             /\ Len(calls') = Len(new_events')
             /\ \A i \in 1..Len(calls') : /\ calls'[i].ev = new_events'[i]
                                           /\ calls'[i].outcome = "ok"
             /\ \A u \in unpack' : u.outcome # "fail"
             /\ dirOps' # <<>> /\ dirOps'[Len(dirOps')] = "move"
             /\ Len(queries') = 1
      ]_vars

\* a pass over two new events has gone through every stage
C16_Witness ==
    /\ pc = "done"
    /\ Len(new_events) = 2
    /\ Len(calls) = 2
    /\ writes = 1
    /\ unpack # {}
    /\ cache0.exists

\* C17 (as claimed): when a run has ended, in done, in the early exit or in
\* error, the entries the cache file held when the run started are a prefix
\* of the entries it holds now.
C17_CacheAppendOnly ==
    pc \in Terminal => IsPrefix(Entries(cache0), Entries(cache_file))

\* C18 (as claimed): from the directory set-up until the files are moved the
\* working directory exists and is empty, and every file the query layer is
\* handed comes from one of the run's new events.
C18_CleanDirectoryBeforeRetrieval ==
    /\ pc \in {"dir_ready", "retrieving", "moving"} => data_dir = Dir({})
    /\ pc = "done" =>
          \A f \in queries[Len(queries)] :
              \E i \in 1..Len(new_events) : f[1][1] = new_events[i].cid

\* C19: when a column file's name is already taken in the target directory,
\* basin_wxm's extract_events returns without error, what the directory held
\* is still there, and create_database is then called on it.
C19_ExistingDestinationIsSuccess ==
    (\E i \in 1..Len(dirOps) : dirOps[i] = "exists") =>
        /\ variant = "basin_wxm"
        /\ pc \in {"extracted", "done"}
        /\ error = "none"
        /\ dir0.files \subseteq data_dir.files
        /\ pc = "done" => result = "db" /\ queries = <<data_dir.files>>

\* a name was taken, and the query layer was called all the same
C19_Witness ==
    /\ variant = "basin_wxm"
    /\ pc = "done"
    /\ dirOps = <<"exists">>
    /\ result = "db"
    /\ Len(new_events) = 2

\* C20 (as claimed): the unpack tool is never run on a .parquet archive and
\* is run on every other archive retrieved; a run of the tool that exits
\* non-zero, or that exits zero without writing its column file, ends the
\* run in error.
C20_DecodeMovesOrUnpacks ==
    /\ \A u \in unpack : u.file[2] # "parquet"
    /\ pc = "moving" =>
          \A f \in temp_dir_events.files :
              f[2] # "parquet" => \E u \in unpack : u.file = f
    /\ \A u \in unpack : u.outcome \in {"fail", "empty"} => pc = "error"

\* concatenation of the lists of a sequence of responses
RECURSIVE Flat(_)
Flat(rs) == IF rs = <<>> THEN <<>> ELSE Head(rs).events \o Flat(Tail(rs))

\* C21 (as claimed): an empty scope is a ValueError with no request made; a
\* failed request raises the class of the failure it met; whenever the
\* listing raises no list is returned, and no unit is requested twice.
C21_ListingErrorsKeepTheirKind ==
    /\ (ls.pc \in {"loop", "returned", "raised"} /\ NoScope(variant, ls.units)) =>
          ls.pc = "raised" /\ ls.err = "ValueError" /\ ls.requests = <<>>
    /\ (ls.pc = "raised" /\ ls.failed # "none") => ls.err = ls.failed
    /\ ls.pc \in {"loop", "returned", "raised"} =>
          /\ Len(ls.requests) <= Len(ls.units)
          /\ \A k \in 1..Len(ls.requests) : ls.requests[k] = ls.units[k]

C23_TracebackIffVerbose ==
    lg.pc = "done" => (lg.traceback <=> lg.verbose # "0")

\* C30 (as claimed): err never returns normally, and what it raises is of
\* the class it was asked for, for every class callers pass.
C30_ErrRaisesRequestedType ==
    (lg.pc = "done" /\ lg.fn = "err") =>
        /\ ~lg.returned
        /\ lg.raised = lg.e_type

C25_BoundsHonouredInclusive ==
    qy.pc = "returned" =>
        qy.aggregated = {t \in qy.rows :
                            /\ qy.start.given => t >= qy.start.at
                            /\ qy.end.given => t <= qy.end.at}

(* ---------------------------------------------------------------------- *)
(* Runs of basin_wxm's prepare_data that start with no cache file, over   *)
(* listings none of which holds the same event twice                      *)
(* ---------------------------------------------------------------------- *)
InitDistinct ==
    /\ Init
    /\ variant = "basin_wxm"
    /\ cache_file = NoFile
    /\ lf = LfIdle
    /\ Distinct(remote)

ChangeRemoteDistinct == ChangeRemote /\ Distinct(remote')

NextDistinct ==
    \/ GetVaultEvents
    \/ ChangeRemoteDistinct
    \/ CheckEventsCache
    \/ EarlyExit
    \/ WriteCacheOpen
    \/ WriteCacheDump
    \/ WriteCacheFail
    \/ PrepareDir
    \/ PrepareDirFail
    \/ EnterExtract
    \/ RetrieveOK
    \/ RetrieveFail
    \/ RetrieveNoCid
    \/ ExtractParquet
    \/ ExtractParquetFail
    \/ MoveFiles
    \/ CreateDatabase

SpecDistinct == InitDistinct /\ [][NextDistinct]_vars

\* C26: from no cache file, after any sequence of runs whose listings hold
\* no event twice, no two entries of the cache file are equal.
C26_CacheHasNoEqualEntries ==
    Distinct(Entries(cache_file))

\* a later run has written again to a cache that already held an entry, and
\* the cache now holds two entries
C26_Witness ==
    /\ pc = "cache_updated"
    /\ cache0.exists
    /\ Len(Entries(cache0)) >= 1
    /\ Len(Entries(cache_file)) = 2
    /\ Distinct(Entries(cache_file))

\* C27: extract_events moves column files into the target directory only
\* after every event of the batch was retrieved and every archive decoded;
\* when a retrieval or a decode fails the target directory is as it was when
\* extract_events was called, and once extract_events has ended, however it
\* ended, neither scratch directory exists.
C27_ExtractAllOrNothing ==
    /\ pc \in {"retrieving", "moving"} => data_dir = dir0
    /\ pc = "moving" =>
          /\ idx > Len(batch)
          /\ Len(calls) = Len(batch)
          /\ \A k \in 1..Len(calls) : calls[k].outcome = "ok"
          /\ \A u \in unpack : u.outcome # "fail"
    /\ pc = "error" => data_dir = dir0
    /\ pc \in {"extracted", "done", "error"} =>
          temp_dir_events = NoDir /\ temp_dir_files = NoDir

\* both events of a batch were retrieved, then a decode failed; the target
\* directory, which held a file, is as it was
C27_Witness ==
    /\ pc = "error"
    /\ Len(calls) = 2
    /\ \A k \in 1..Len(calls) : calls[k].outcome = "ok"
    /\ \E u \in unpack : u.outcome = "fail"
    /\ dir0.files # {}
    /\ data_dir = dir0
    /\ temp_dir_events = NoDir

\* C28: write_events_cache called with events on a cache file that does
\* not decode raises an error and leaves the file exactly as it was: the
\* file is never opened for writing.
C28_CorruptCacheWriteFailsFileKept ==
    (ReadFails(cache0) /\ ~NoInput(events)) =>
        /\ pc \notin {"cache_writing", "cache_updated"}
        /\ cache_file = cache0
        /\ pc = "write_raised" => error = "RuntimeError"

\* the write was called with one event on a cut-off cache file and raised
C28_Witness ==
    /\ pc = "write_raised"
    /\ ReadFails(cache0)
    /\ Len(events) = 1
    /\ error = "RuntimeError"
    /\ cache_file = cache0

\* C29: a call of create_lazyframe ends, whatever max_retries is and
\* whatever the attempts give; every iteration of its loop returns, raises
\* or adds one to the attempt counter; no more than max_retries attempts are
\* made; it returns only with the frame of its last attempt; with
\* max_retries zero or negative it makes no attempt and raises the
\* all-retries-failed error.
C29_LazyframeTerminates ==
    /\ <>(lf.pc \in {"returned", "raised"})
    /\ [][lf.pc = "loop" =>
             \/ lf'.pc \in {"returned", "raised"}
             \/ lf'.pc = "loop" /\ lf'.attempt = lf.attempt + 1]_vars
    /\ [](lf.max_retries >= 0 => Len(lf.calls) <= lf.max_retries)
    /\ [](lf.pc = "returned" =>
             Len(lf.calls) >= 1 /\ lf.calls[Len(lf.calls)] = "ok")
    /\ [](lf.max_retries <= 0 =>
             /\ lf.calls = <<>>
             /\ lf.pc # "returned"
             /\ (lf.pc = "raised" /\ lf.files # <<>>) =>
                   lf.err = [class |-> "ComputeError", what |-> "all_retries_failed"])

\* a call with a negative max_retries has ended without an attempt
C29_Witness ==
    /\ lf.max_retries < 0
    /\ lf.files # <<>>
    /\ lf.pc = "raised"
    /\ lf.calls = <<>>
    /\ lf.err.what = "all_retries_failed"

====
